---- MODULE Spec2Model ----
(***************************************************************************)
(* A model of the assessment orchestration pipeline of DentalAssessment:   *)
(* ModelOrchestrator (backend/services/model_orchestrator.py) with the     *)
(* parts of LoggingService and Settings it uses, and ImageService          *)
(* (backend/services/image_service.py), the two-tier artifact store.       *)
(*                                                                         *)
(* Spec: one behaviour is the life of one orchestrator process in which a  *)
(* caller issues one call, assess_image or batch_assess, on an asyncio     *)
(* event loop.  A unit is one assess_image activation: the only one of a   *)
(* single call, or the task gather() made for position i of a batch.       *)
(* StoreSpec: one behaviour is a sequence of ImageService calls.           *)
(* CacheSpec: one behaviour is a sequence of CacheService calls            *)
(* (backend/services/cache_service.py) while the clock of the cache runs. *)
(* LogSpec: one behaviour is a sequence of LoggingService calls.           *)
(* RouterSpec: one behaviour is a sequence of requests to the route        *)
(* create_assessment (backend/api/routers/assessments.py), which uses its  *)
(* own, never initialized, ImageService and LoggingService.                *)
(* AppSpec: one behaviour is the application's startup (backend/main.py,   *)
(* lifespan) followed by requests to create_assessment and                 *)
(* delete_assessment.                                                      *)
(*                                                                         *)
(* Confidences are kept as integer percents: 0.7 is 70, 1.0 is 100.        *)
(***************************************************************************)
EXTENDS Integers, Sequences, FiniteSets, TLC

\* ------------------------------------------------------------------ bounds
\* The longest batch (len(image_paths)) and the largest max_concurrent a
\* caller passes.
MaxBatch == 3
MaxConcurrent == 3

\* ---------------------------------------------------------------- constants
\* schemas.py: the ModelType and PredictionType enums.
ModelType == {"cnn", "svm", "quantum"}
PredictionType == {"lesion", "normal"}

\* The backend ids callers pass: two registered ones and one that is no
\* member of ModelType (tests/test_api.py asks for "nonexistent"; Python does
\* not stop a caller from passing one).
ModelTypeInputs == {"cnn", "quantum", "nonexistent"}

\* config.py: Settings.max_concurrent_requests.  Settings is a BaseSettings:
\* the environment may override the default.
max_concurrent_requests_default == 100
ConfiguredCeilings == {2, max_concurrent_requests_default}

\* schemas.py AssessmentResponse.confidence: ge=0.0, le=1.0, in percent.
ConfidenceMin == 0
ConfidenceMax == 100

\* DummyModel.predict: random.uniform(0.7, 0.95), processing_time_ms=100.
DummyConfidenceLow == 70
DummyConfidenceHigh == 95
DummyProcessingTimeMs == 100

Units == 1..MaxBatch

\* The request ids callers of save_uploaded_image pass (uuid4 strings in
\* create_assessment), and the one upload file name.
RequestIds == {"r1", "r2"}
FileNames == {"a.png"}

\* save_uploaded_image: unique_filename = f"{request_id}_{file.filename}".
UniqueFilename(request_id, filename) == <<request_id, filename>>
Names == {UniqueFilename(r, f) : r \in RequestIds, f \in FileNames}

\* The uploaded payloads: one of every length up to MaxBytes.
MaxBytes == 1
Contents == {[i \in 1..k |-> i] : k \in 0..MaxBytes}

\* What a tier holds under a name.
Absent == [present |-> FALSE, bytes |-> <<>>]
Stored(bytes) == [present |-> TRUE, bytes |-> bytes]

\* How a call on the remote tier ends when the tier does not hold it back:
\* it works, the server answers with an error (minio.error.S3Error), or the
\* server cannot be reached (urllib3's MaxRetryError, which is no S3Error).
RemoteOutcomes == {"ok", "S3Error", "MaxRetryError"}

\* How a call on the local file system ends: it works or raises OSError.
LocalOutcomes == {"ok", "OSError"}

\* The cache keys and the values callers store under them.
Keys == {"k1", "k2"}
Str(s) == [kind |-> "str", str |-> s]
Values == {Str("v1"), Str("v2")}

\* The largest ttl (seconds) a caller of set passes, the ttls passed (0 is
\* one Redis rejects), and the last second of the clock.
MaxTtl == 2
Ttls == 0..MaxTtl
MaxClock == 2

\* CacheService.set: "ttl: int = 3600".
DefaultTtl == 3600

\* How a command sent to Redis ends when the server is asked: it is served
\* or the connection fails (redis.exceptions.ConnectionError).
RedisOutcomes == {"ok", "ConnectionError"}

VARIABLES
    models,                   \* self.models: id -> "real" | "dummy"
    loadable,                 \* id -> the import and constructor of its class work
    max_concurrent_requests,  \* settings.max_concurrent_requests
    initialized,              \* logging_service.initialized
    sink,                     \* events LoggingService emitted to the live sink
    durable,                  \* events LoggingService wrote to the database
    created,                  \* created_at of each row of durable, in order
    console,                  \* lines the orchestrator wrote with logger.* itself
    cache,                    \* the keys the result cache holds
    mode,                     \* "none" | "single" | "batch": the call issued
    phase,                    \* "idle" | "running" | "returned" | "raised"
    model_type,               \* the call's model_type argument
    batch_size,               \* len(image_paths)
    max_concurrent,           \* the call's max_concurrent argument
    semaphore,                \* asyncio.Semaphore._value
    pc,                       \* unit -> "absent" | "waiting" | "predict" | "done"
    fate,                     \* unit -> what its in-flight predict will do
    invoked,                  \* unit -> number of predict invocations made for it
    task,                     \* unit -> how its assess_image ended
    finished,                 \* the units in the order they completed
    results,                  \* what the call returned to its caller
    raised,                   \* the exception the call raised to its caller
    minio_client,             \* image_service.minio_client is set (not None)
    remote,                   \* the bucket: stored name -> bytes, or Absent
    local,                    \* the uploads directory: stored name -> bytes, or Absent
    last,                     \* the last ImageService call and how it ended
    redis_client,             \* cache_service.redis_client is set (not None)
    now,                      \* the clock of the Redis server, in seconds
    lastc,                    \* the last CacheService call and how it ended
    lastlog,                  \* the last LoggingService call and how it ended
    issued,                   \* the request ids create_assessment has drawn
    assessments,              \* the rows of the assessments table
    lasthttp,                 \* the last request to the router and its response
    lifespan                  \* the application's startup and the service it made

config == <<models, loadable, max_concurrent_requests>>
logs == <<initialized, sink, durable, created, console>>
callArgs == <<mode, model_type, batch_size, max_concurrent>>
unitVars == <<pc, fate, invoked, task, finished>>
store == <<minio_client, remote, local, last>>
orchestrator ==
    <<config, logs, cache, callArgs, phase, semaphore, unitVars, results, raised>>
cachestore == <<redis_client, now, lastc>>
eventlog == <<lastlog>>
http == <<issued, assessments, lasthttp, lifespan>>
others == <<cachestore, eventlog, http>>
\* The orchestrator without the cache.
idle == <<config, logs, callArgs, phase, semaphore, unitVars, results, raised>>
vars == <<orchestrator, store, others>>

\* ------------------------------------------------------------------ values
NoValue == [kind |-> "none"]

\* ModelResult.__init__: prediction, confidence, features_dict,
\* processing_time_ms (roi_* stay None in every path of src/).
ModelResult(prediction, confidence, features_dict, processing_time_ms) ==
    [kind |-> "result", prediction |-> prediction, confidence |-> confidence,
     features_dict |-> features_dict, processing_time_ms |-> processing_time_ms]

\* An exception object.
Exception(type) == [kind |-> "exception", type |-> type]

\* How a coroutine ended.
Pending == [how |-> "pending", value |-> NoValue]
Returned(v) == [how |-> "return", value |-> v]
Raised(e) == [how |-> "raise", value |-> e]

\* What an invocation of predict will do.
NoFate == [does |-> "nothing", value |-> NoValue]
WillReturn(v) == [does |-> "return", value |-> v]
WillRaise(e) == [does |-> "raise", value |-> e]
WillHang == [does |-> "hang", value |-> NoValue]

\* No ImageService call has been made.
NoCall ==
    [op |-> "none", name |-> <<>>, content |-> <<>>, outcome |-> Pending,
     steps |-> <<>>]

\* No CacheService call has been made.
NoCacheCall ==
    [op |-> "none", key |-> "", value |-> NoValue, ttl |-> 0,
     backend |-> "none", outcome |-> Pending, at |-> 0]

\* No LoggingService call has been made.
NoLogCall ==
    [op |-> "none", level |-> "", module |-> "", limit |-> 0, offset |-> 0,
     db |-> "none", session |-> "none", outcome |-> Pending]

\* Before startup: lifespan has not run and has made no LoggingService.
NotStarted == [started |-> FALSE, logging_service |-> NoValue]

\* No request has been made.
NoRequest ==
    [op |-> "none", model_type |-> "", content_type |-> "", request_id |-> "",
     status |-> 0, detail |-> ""]

\* ---------------------------------------------------------------- backends
\* A slip of scale: random.uniform(70, 95), a percentage where a fraction
\* is meant.
DummyConfidencePercent ==
    {DummyConfidenceLow * ConfidenceMax, DummyConfidenceHigh * ConfidenceMax}

\* DummyModel.predict: the confidences random.uniform(0.7, 0.95) draws from
\* (the two ends of the range stand for it).
DummyConfidence == {DummyConfidenceLow, DummyConfidenceHigh}

\* A features_dict that carries the dummy tag without the id.
DummyFeaturesUntagged(mt) == [dummy_feature |-> 50, model_type |-> "dummy"]

\* DummyModel.predict: features_dict carries the dummy tag and the id.
DummyFeatures(mt) == [dummy_feature |-> 50, model_type |-> mt]

\* DummyModel.predict(image_path): always returns.
DummyPredict(mt) ==
    { WillReturn(ModelResult(p, c, DummyFeatures(mt), DummyProcessingTimeMs)) :
        p \in PredictionType, c \in DummyConfidence }

\* CNNModel, SVMModel, QuantumSVMModel (classical/, quantum/): their
\* predict is opaque.  From the specification: it returns a Result whose
\* label is one of the two and whose confidence is in [0.0, 1.0], or it
\* fails, or it never completes.
RealFeatures(mt) == [dummy_feature |-> -1, model_type |-> mt]
RealPredict(mt) ==
    { WillReturn(ModelResult("lesion", ConfidenceMax, RealFeatures(mt), 0)),
      WillReturn(ModelResult("normal", ConfidenceMin, RealFeatures(mt), 0)),
      WillRaise(Exception("RuntimeError")),
      WillHang }

\* model.predict(image_path, request_id=...), model = self.models[model_type].
Predict(mt) == IF models[mt] = "dummy" THEN DummyPredict(mt) ELSE RealPredict(mt)

\* ------------------------------------------------------------ LoggingService
\* One event of LoggingService._write_log; unit names the activation that
\* made the call (0: none).
LogEvent(level, module, function, unit) ==
    [level |-> level, module |-> module, function |-> function, unit |-> unit]

\* An initialized service that writes every event to the database.
PersistsEveryLevel(level) == initialized

\* _write_log: "if level in [ERROR, WARNING, CRITICAL] and self.initialized".
Persists(level) == level \in {"ERROR", "WARNING", "CRITICAL"} /\ initialized

\* The levels _write_log has a logger call for ("if level == ... elif").
Levels == {"DEBUG", "INFO", "WARNING", "ERROR", "CRITICAL"}

\* How the database session ends: add and commit work, or one of
\* SessionLocal(), add, commit raises.
DbOutcomes == {"ok", "OperationalError"}

\* server_default=func.now(): the created_at of a new row is the time of
\* the database server, which is at or after (by late) that of the newest
\* row.
CreatedAt(late) ==
    IF created = <<>> THEN late ELSE created[Len(created)] + late

\* What a call of _write_log did: the sink and the table after it, and how
\* the call ended.
LogEffect(s, d, c, db, outcome) ==
    [sink |-> s, durable |-> d, created |-> c, db |-> db, outcome |-> outcome]

\* A _write_log without the try around its database block.
write_log_effect_unguarded(level, module, function, unit, db, late) ==
    LET event == LogEvent(level, module, function, unit)
        emitted == IF level \in Levels THEN Append(sink, event) ELSE sink
    IN  IF ~Persists(level)
        THEN LogEffect(emitted, durable, created, "none", Returned(NoValue))
        ELSE IF db = "ok"
        THEN LogEffect(emitted, Append(durable, event),
                       Append(created, CreatedAt(late)), db, Returned(NoValue))
        ELSE LogEffect(emitted, durable, created, db, Raised(Exception(db)))

\* _write_log: emits to the structured logger by level; an event that
\* Persists is added and committed, and an exception of that block is
\* logged and dropped.
write_log_effect(level, module, function, unit, db, late) ==
    LET event == LogEvent(level, module, function, unit)
        emitted == IF level \in Levels THEN Append(sink, event) ELSE sink
    IN  IF ~Persists(level)
        THEN LogEffect(emitted, durable, created, "none", Returned(NoValue))
        ELSE IF db = "ok"
        THEN LogEffect(emitted, Append(durable, event),
                       Append(created, CreatedAt(late)), db, Returned(NoValue))
        ELSE LogEffect(emitted, durable, created, db, Returned(NoValue))

\* _write_log as the orchestrator calls it: the database works.
write_log(level, module, function, unit) ==
    LET e == write_log_effect(level, module, function, unit, "ok", 0)
    IN  /\ sink' = e.sink
        /\ durable' = e.durable
        /\ created' = e.created

\* assess_image without its performance event.
log_model_performance_skipped(unit) == UNCHANGED <<sink, durable, created>>

\* log_model_performance: one INFO event of module "models".
log_model_performance(unit) == write_log("INFO", "models", "inference", unit)

\* LoggingService.initialize().
Initialize ==
    /\ ~initialized
    /\ initialized' = TRUE
    /\ UNCHANGED <<config, store, others, sink, durable, created, console, cache, callArgs, phase,
                   semaphore, unitVars, results, raised>>

\* A line the orchestrator writes with its own structlog logger.
Line(level, event, unit) == [level |-> level, event |-> event, unit |-> unit]

\* ------------------------------------------------------------- the registry
\* What the imports and constructors of _load_models can do: all work,
\* one fails (SVMModel), all fail.
LoadOutcomes ==
    { [mt \in ModelType |-> TRUE],
      [mt \in ModelType |-> mt # "svm"],
      [mt \in ModelType |-> FALSE] }

\* A _load_models whose except branch only logs: the ids bound are those
\* whose import and constructor worked.
load_models_without_fallback(ok) ==
    [mt \in {m \in ModelType : ok[m]} |-> "real"]

\* _load_models: one try around the three imports and constructors.  If
\* all work every id is bound to its real backend; if one raises,
\* _create_dummy_models rebinds all three ids to DummyModel instances.
load_models(ok) ==
    IF \A mt \in ModelType : ok[mt]
    THEN [mt \in ModelType |-> "real"]
    ELSE [mt \in ModelType |-> "dummy"]

\* The registries __init__ can leave.
LoadModels == {load_models(ok) : ok \in LoadOutcomes}

Init ==
    /\ models \in LoadModels
    /\ loadable \in {ok \in LoadOutcomes : load_models(ok) = models}
    /\ max_concurrent_requests \in ConfiguredCeilings
    /\ initialized = FALSE
    /\ sink = <<>>
    /\ durable = <<>>
    /\ created = <<>>
    /\ console = <<>>
    /\ cache = {}
    /\ mode = "none"
    /\ phase = "idle"
    /\ model_type = "cnn"
    /\ batch_size = 0
    /\ max_concurrent = 0
    /\ semaphore = 0
    /\ pc = [i \in Units |-> "absent"]
    /\ fate = [i \in Units |-> NoFate]
    /\ invoked = [i \in Units |-> 0]
    /\ task = [i \in Units |-> Pending]
    /\ finished = <<>>
    /\ results = <<>>
    /\ raised = NoValue
    /\ minio_client = FALSE
    /\ remote = [n \in Names |-> Absent]
    /\ local = [n \in Names |-> Absent]
    /\ last = NoCall
    /\ redis_client = FALSE
    /\ now = 0
    /\ lastc = NoCacheCall
    /\ lastlog = NoLogCall
    /\ issued = {}
    /\ assessments = <<>>
    /\ lasthttp = NoRequest
    /\ lifespan = NotStarted

\* ------------------------------------------------------------- assess_image
\* An acquire() that takes nothing: the limiter admits every unit.
SemaphoreAcquireNothing(value) == value

\* A release() that gives nothing back: a slot once taken is lost.
SemaphoreReleaseNothing(value) == value

\* A semaphore that blocks only below zero.
SemaphoreLockedBelowZero(value) == value < 0

\* asyncio.Semaphore: acquire() takes one from the value and blocks while
\* the value is 0; release() gives one back.
SemaphoreLocked(value) == value <= 0
SemaphoreAcquire(value) == value - 1
SemaphoreRelease(value) == value + 1

\* How the end of unit i's assess_image reaches the caller.  In a batch
\* (inBatch) the "async with semaphore" block is left, which releases the
\* semaphore (sem: its value before), and the task is done; gather() looks
\* at it later.  In a single call the caller gets the value or the exception
\* at once.
Finish(i, outcome, inBatch, sem) ==
    /\ task' = [task EXCEPT ![i] = outcome]
    /\ pc' = [pc EXCEPT ![i] = "done"]
    /\ finished' = Append(finished, i)
    /\ IF inBatch
       THEN /\ semaphore' = SemaphoreRelease(sem)
            /\ UNCHANGED <<phase, results, raised>>
       ELSE /\ semaphore' = sem
            /\ IF outcome.how = "raise"
               THEN /\ phase' = "raised"
                    /\ raised' = outcome.value
                    /\ UNCHANGED results
               ELSE /\ phase' = "returned"
                    /\ results' = <<outcome.value>>
                    /\ UNCHANGED raised

\* An unknown id that is recorded in the event log before it is raised.
UnknownModelLogged(i, inBatch, sem) ==
    /\ Finish(i, Raised(Exception("ValueError")), inBatch, sem)
    /\ write_log("ERROR", "models", "inference", i)
    /\ UNCHANGED <<fate, invoked, initialized, console, cache>>

\* "if model_type not in self.models: raise ValueError": nothing is logged
\* and no backend is called.
UnknownModel(i, inBatch, sem) ==
    /\ Finish(i, Raised(Exception("ValueError")), inBatch, sem)
    /\ UNCHANGED <<fate, invoked, logs, cache>>

\* logger.info("Starting assessment"); result = await model.predict(...):
\* the invocation starts, and what it will do is the backend's choice.
InvokePredict(i, mt) ==
    /\ console' = Append(console, Line("info", "Starting assessment", i))
    /\ \E f \in Predict(mt) : fate' = [fate EXCEPT ![i] = f]
    /\ invoked' = [invoked EXCEPT ![i] = @ + 1]
    /\ pc' = [pc EXCEPT ![i] = "predict"]
    /\ UNCHANGED <<initialized, sink, durable, created, cache, task, finished>>

\* assess_image(image_path, mt) from its first line to its first suspension.
Enter(i, mt, inBatch, sem) ==
    IF mt \notin DOMAIN models
    THEN UnknownModel(i, inBatch, sem)
    ELSE /\ InvokePredict(i, mt)
         /\ phase' = "running"
         /\ semaphore' = sem
         /\ UNCHANGED <<results, raised>>

\* predict returned: logger.info("Assessment completed"),
\* await logging_service.log_model_performance(...), return result.
OnPredictResult(i) ==
    /\ console' = Append(console, Line("info", "Assessment completed", i))
    /\ log_model_performance(i)
    /\ Finish(i, Returned(fate[i].value), mode = "batch", semaphore)
    /\ UNCHANGED <<initialized, cache, fate, invoked>>

\* An except branch that hands the exception back as a value instead of
\* raising it.
OnPredictExceptionSwallowed(i) ==
    /\ console' = Append(console, Line("error", "Assessment failed", i))
    /\ Finish(i, Returned(fate[i].value), mode = "batch", semaphore)
    /\ UNCHANGED <<initialized, sink, durable, created, cache, fate, invoked>>

\* An except branch that calls predict again instead of raising.
OnPredictExceptionRetried(i) ==
    /\ console' = Append(console, Line("error", "Assessment failed", i))
    /\ \E f \in Predict(model_type) : fate' = [fate EXCEPT ![i] = f]
    /\ invoked' = [invoked EXCEPT ![i] = @ + 1]
    /\ UNCHANGED <<initialized, sink, durable, created, cache, pc, task, finished,
                   phase, semaphore, results, raised>>

\* predict raised: "except Exception as e: logger.error("Assessment
\* failed", ...); raise".
OnPredictException(i) ==
    /\ console' = Append(console, Line("error", "Assessment failed", i))
    /\ Finish(i, Raised(fate[i].value), mode = "batch", semaphore)
    /\ UNCHANGED <<initialized, sink, durable, created, cache, fate, invoked>>

\* The event loop resumes unit i when its predict has returned.
PredictReturns(i) ==
    /\ pc[i] = "predict"
    /\ fate[i].does = "return"
    /\ OnPredictResult(i)
    /\ UNCHANGED <<config, store, others, callArgs>>

\* The event loop resumes unit i when its predict has raised.
PredictRaises(i) ==
    /\ pc[i] = "predict"
    /\ fate[i].does = "raise"
    /\ OnPredictException(i)
    /\ UNCHANGED <<config, store, others, callArgs>>

\* A caller awaits assess_image(image_path, model_type, request_id): the
\* coroutine runs at once, up to its first suspension.
AssessImage(mt) ==
    /\ phase = "idle"
    /\ mode' = "single"
    /\ model_type' = mt
    /\ batch_size' = 1
    /\ Enter(1, mt, FALSE, semaphore)
    /\ UNCHANGED <<config, store, others, max_concurrent>>

\* ------------------------------------------------------------- batch_assess
\* A gather that lists the outcomes in the order the tasks completed
\* (asyncio.as_completed).
GatherAsCompleted(tasks, n) == [i \in 1..n |-> tasks[finished[i]].value]

\* asyncio.gather(*tasks, return_exceptions=True): one entry per task, in
\* the order of the tasks; a task that raised gives its exception object.
Gather(tasks, n) == [i \in 1..n |-> tasks[i].value]

\* A DummyModel's predict blocks the event loop (time.sleep, no await):
\* while one is in flight no other task runs.
LoopBlocked ==
    \E j \in Units : pc[j] = "predict" /\ models[model_type] = "dummy"

\* A caller awaits batch_assess(image_paths, model_type, max_concurrent)
\* with len(image_paths) = n.  asyncio.Semaphore(value) raises ValueError
\* for a negative value; otherwise the n coroutines are made and gather()
\* schedules them as tasks.
BatchAssess(n, mt, m) ==
    /\ phase = "idle"
    /\ mode' = "batch"
    /\ model_type' = mt
    /\ batch_size' = n
    /\ max_concurrent' = m
    /\ IF m < 0
       THEN /\ phase' = "raised"
            /\ raised' = Exception("ValueError")
            /\ UNCHANGED <<semaphore, pc>>
       ELSE /\ phase' = "running"
            /\ semaphore' = m
            /\ pc' = [i \in Units |-> IF i <= n THEN "waiting" ELSE "absent"]
            /\ UNCHANGED raised
    /\ UNCHANGED <<config, store, others, logs, cache, fate, invoked, task, finished, results>>

\* Task i runs for the first time, or is woken by a release: "async with
\* semaphore" takes a slot and assess_image starts.  Tasks start in the
\* order gather() made them and the semaphore wakes its waiters first in,
\* first out, so unit i is admitted after every unit before it.
Admit(i) ==
    /\ mode = "batch"
    /\ phase = "running"
    /\ pc[i] = "waiting"
    /\ \A j \in 1..(i - 1) : pc[j] # "waiting"
    /\ ~LoopBlocked
    /\ ~SemaphoreLocked(semaphore)
    /\ Enter(i, model_type, TRUE, SemaphoreAcquire(semaphore))
    /\ UNCHANGED <<config, store, others, callArgs>>

\* gather() without return_exceptions=True: the first task that raises
\* makes gather, and batch_assess, raise at once.
BatchReturnPropagating ==
    /\ mode = "batch"
    /\ phase = "running"
    /\ \/ /\ \E i \in 1..batch_size :
                /\ task[i].how = "raise"
                /\ raised' = task[i].value
          /\ phase' = "raised"
          /\ UNCHANGED results
       \/ /\ \A i \in 1..batch_size : pc[i] = "done" /\ task[i].how = "return"
          /\ results' = Gather(task, batch_size)
          /\ phase' = "returned"
          /\ UNCHANGED raised
    /\ UNCHANGED <<config, store, others, logs, cache, callArgs, semaphore, unitVars>>

\* gather() completes when every task is done; batch_assess returns the
\* list.
BatchReturn ==
    /\ mode = "batch"
    /\ phase = "running"
    /\ \A i \in 1..batch_size : pc[i] = "done"
    /\ results' = Gather(task, batch_size)
    /\ phase' = "returned"
    /\ UNCHANGED <<config, store, others, logs, cache, callArgs, semaphore, unitVars, raised>>

Next ==
    \/ Initialize
    \/ \E mt \in ModelTypeInputs : AssessImage(mt)
    \/ \E n \in 0..MaxBatch, mt \in ModelTypeInputs, m \in (-1)..MaxConcurrent :
          BatchAssess(n, mt, m)
    \/ \E i \in Units : Admit(i)
    \/ \E i \in Units : PredictReturns(i)
    \/ \E i \in Units : PredictRaises(i)
    \/ BatchReturn

Spec == Init /\ [][Next]_vars

\* The event loop runs every task that is ready: a unit that can be
\* admitted is admitted, a predict that has an outcome resumes its unit, and
\* gather() returns once every task is done.
Fairness ==
    /\ \A i \in Units : WF_vars(Admit(i))
    /\ \A i \in Units : WF_vars(PredictReturns(i))
    /\ \A i \in Units : WF_vars(PredictRaises(i))
    /\ WF_vars(BatchReturn)

FairSpec == Spec /\ Fairness

\* One batch_assess call on its own: the registry is all real or all
\* fallback, the event log is left uninitialized, and the event loop is
\* fair to the tasks of the batch.
BatchInit ==
    /\ Init
    /\ max_concurrent_requests = max_concurrent_requests_default
    /\ loadable \in {[mt \in ModelType |-> TRUE], [mt \in ModelType |-> FALSE]}

BatchNext ==
    \/ \E n \in 0..MaxBatch, mt \in ModelTypeInputs, m \in (-1)..MaxConcurrent :
          BatchAssess(n, mt, m)
    \/ \E i \in Units : Admit(i)
    \/ \E i \in Units : PredictReturns(i)
    \/ \E i \in Units : PredictRaises(i)
    \/ BatchReturn

BatchFairSpec == BatchInit /\ [][BatchNext]_vars /\ Fairness

\* ------------------------------------------------------------- ImageService
\* Python values the calls return.
Bytes(b) == [kind |-> "bytes", bytes |-> b]
Bool(b) == [kind |-> "bool", bool |-> b]

\* One call on a tier and how it ended.
Step(tier, call, result) == [tier |-> tier, call |-> call, result |-> result]

\* What a call did: the tiers after it, how it ended, the tier calls it made.
Effect(l, r, outcome, steps) ==
    [local |-> l, remote |-> r, outcome |-> outcome, steps |-> steps]


\* A dict whose size is the length of the name, not of the content.
ImageInfoSizeOfName(n, content, content_type) ==
    [kind |-> "dict", filename |-> n, path |-> <<"uploads", n>>,
     size |-> Len(n), format |-> content_type]

\* save_uploaded_image: the dict it returns.
ImageInfo(n, content, content_type) ==
    [kind |-> "dict", filename |-> n, path |-> <<"uploads", n>>,
     size |-> Len(content), format |-> content_type]

\* A save that hands put_object the upload stream, already read to its
\* end: the bucket gets an empty object.
save_uploaded_image_spent_stream(n, content, lo, ro) ==
    IF lo # "ok"
    THEN Effect(local, remote, Raised(Exception(lo)),
                <<Step("local", "write", lo)>>)
    ELSE LET written == [local EXCEPT ![n] = Stored(content)]
             info == ImageInfo(n, content, "image/png")
         IN  IF ~minio_client
             THEN Effect(written, remote, Returned(info),
                         <<Step("local", "write", "ok")>>)
             ELSE IF ro = "ok"
             THEN Effect(written, [remote EXCEPT ![n] = Stored(<<>>)],
                         Returned(info),
                         <<Step("local", "write", "ok"),
                           Step("remote", "put_object", "ok")>>)
             ELSE Effect(written, remote, Raised(Exception(ro)),
                         <<Step("local", "write", "ok"),
                           Step("remote", "put_object", ro)>>)

\* A save that mirrors to the remote tier first and writes the local file
\* after it.
save_uploaded_image_remote_first(n, content, lo, ro) ==
    LET info == ImageInfo(n, content, "image/png")
        put == [remote EXCEPT ![n] = Stored(content)]
    IN  IF minio_client /\ ro # "ok"
        THEN Effect(local, remote, Raised(Exception(ro)),
                    <<Step("remote", "put_object", ro)>>)
        ELSE LET r == IF minio_client THEN put ELSE remote
                 before == IF minio_client
                           THEN <<Step("remote", "put_object", "ok")>>
                           ELSE <<>>
             IN  IF lo # "ok"
                 THEN Effect(local, r, Raised(Exception(lo)),
                             Append(before, Step("local", "write", lo)))
                 ELSE Effect([local EXCEPT ![n] = Stored(content)], r,
                             Returned(info),
                             Append(before, Step("local", "write", "ok")))

\* save_uploaded_image(file, request_id) after "content = await
\* file.read()", with n the unique filename: the local write, then the
\* remote put_object if the client is set; any exception is logged and
\* raised again.
save_uploaded_image(n, content, lo, ro) ==
    IF lo # "ok"
    THEN Effect(local, remote, Raised(Exception(lo)),
                <<Step("local", "write", lo)>>)
    ELSE LET written == [local EXCEPT ![n] = Stored(content)]
             info == ImageInfo(n, content, "image/png")
         IN  IF ~minio_client
             THEN Effect(written, remote, Returned(info),
                         <<Step("local", "write", "ok")>>)
             ELSE IF ro = "ok"
             THEN Effect(written, [remote EXCEPT ![n] = Stored(content)],
                         Returned(info),
                         <<Step("local", "write", "ok"),
                           Step("remote", "put_object", "ok")>>)
             ELSE Effect(written, remote, Raised(Exception(ro)),
                         <<Step("local", "write", "ok"),
                           Step("remote", "put_object", ro)>>)

\* get_image: the local part, "if os.path.exists(local_path)": the bytes,
\* or None when the file is absent or its read raises (logged).
get_image_local(n, lo, before) ==
    IF ~local[n].present
    THEN Effect(local, remote, Returned(NoValue), before)
    ELSE IF lo = "ok"
    THEN Effect(local, remote, Returned(Bytes(local[n].bytes)),
                Append(before, Step("local", "read", "ok")))
    ELSE Effect(local, remote, Returned(NoValue),
                Append(before, Step("local", "read", lo)))

\* How get_object, stat_object on name n ends: a missing key is an S3Error
\* (NoSuchKey).
RemoteLookup(n, ro) ==
    IF ro = "ok" /\ ~remote[n].present THEN "S3Error" ELSE ro

\* A get_image that repairs the local tier from the remote copy it read.
get_image_repairing(n, lo, ro) ==
    IF ~minio_client
    THEN get_image_local(n, lo, <<>>)
    ELSE LET got == RemoteLookup(n, ro)
             step == <<Step("remote", "get_object", got)>>
         IN  IF got = "ok"
             THEN Effect([local EXCEPT ![n] = remote[n]], remote,
                         Returned(Bytes(remote[n].bytes)), step)
             ELSE IF got = "S3Error"
             THEN get_image_local(n, lo, step)
             ELSE Effect(local, remote, Raised(Exception(got)), step)

\* get_image(filename): the remote get_object if the client is set, whose
\* S3Error alone is caught, then the local file.
get_image(n, lo, ro) ==
    IF ~minio_client
    THEN get_image_local(n, lo, <<>>)
    ELSE LET got == RemoteLookup(n, ro)
             step == <<Step("remote", "get_object", got)>>
         IN  IF got = "ok"
             THEN Effect(local, remote, Returned(Bytes(remote[n].bytes)), step)
             ELSE IF got = "S3Error"
             THEN get_image_local(n, lo, step)
             ELSE Effect(local, remote, Raised(Exception(got)), step)

\* delete_image: the local part, "if os.path.exists(local_path)":
\* os.remove, whose exception is logged and makes success False.
delete_image_local(n, lo, r, success, before) ==
    IF ~local[n].present
    THEN Effect(local, r, Returned(Bool(success)), before)
    ELSE IF lo = "ok"
    THEN Effect([local EXCEPT ![n] = Absent], r, Returned(Bool(success)),
                Append(before, Step("local", "remove", "ok")))
    ELSE Effect(local, r, Returned(Bool(FALSE)),
                Append(before, Step("local", "remove", lo)))

\* delete_image(filename): remove_object if the client is set (removing a
\* key the bucket does not hold succeeds), whose S3Error alone is caught and
\* makes success False, then the local file.
delete_image(n, lo, ro) ==
    IF ~minio_client
    THEN delete_image_local(n, lo, remote, TRUE, <<>>)
    ELSE LET step == <<Step("remote", "remove_object", ro)>>
         IN  IF ro = "ok"
             THEN delete_image_local(n, lo, [remote EXCEPT ![n] = Absent],
                                     TRUE, step)
             ELSE IF ro = "S3Error"
             THEN delete_image_local(n, lo, remote, FALSE, step)
             ELSE Effect(local, remote, Raised(Exception(ro)), step)

\* A get_image_info that describes the local file when the remote tier
\* gives nothing.
get_image_info_local_fallback(n, ro) ==
    LET got == IF minio_client THEN RemoteLookup(n, ro) ELSE "S3Error"
        step == IF minio_client
                THEN <<Step("remote", "stat_object", got)>>
                ELSE <<>>
    IN  IF got = "ok"
        THEN Effect(local, remote,
                    Returned([kind |-> "dict", filename |-> n,
                              size |-> Len(remote[n].bytes)]), step)
        ELSE IF got = "S3Error"
        THEN IF local[n].present
             THEN Effect(local, remote,
                         Returned([kind |-> "dict", filename |-> n,
                                   size |-> Len(local[n].bytes)]), step)
             ELSE Effect(local, remote, Returned(NoValue), step)
        ELSE Effect(local, remote, Raised(Exception(got)), step)

\* get_image_info(filename): None without a client, else stat_object, whose
\* S3Error alone is caught and gives None.
get_image_info(n, ro) ==
    IF ~minio_client
    THEN Effect(local, remote, Returned(NoValue), <<>>)
    ELSE LET got == RemoteLookup(n, ro)
             step == <<Step("remote", "stat_object", got)>>
         IN  IF got = "ok"
             THEN Effect(local, remote,
                         Returned([kind |-> "dict", filename |-> n,
                                   size |-> Len(remote[n].bytes)]), step)
             ELSE IF got = "S3Error"
             THEN Effect(local, remote, Returned(NoValue), step)
             ELSE Effect(local, remote, Raised(Exception(got)), step)

\* list_images(): [] without a client, else the bucket's object names,
\* and [] for an S3Error.
list_images(ro) ==
    IF ~minio_client
    THEN Effect(local, remote, Returned([kind |-> "list", items |-> {}]), <<>>)
    ELSE LET step == <<Step("remote", "list_objects", ro)>>
         IN  IF ro = "ok"
             THEN Effect(local, remote,
                         Returned([kind |-> "list",
                                   items |-> {n \in Names : remote[n].present}]),
                         step)
             ELSE IF ro = "S3Error"
             THEN Effect(local, remote,
                         Returned([kind |-> "list", items |-> {}]), step)
             ELSE Effect(local, remote, Raised(Exception(ro)), step)

\* A call of ImageService takes effect: the tiers change and the call is
\* the last one made.
Apply(op, n, content, e) ==
    /\ local' = e.local
    /\ remote' = e.remote
    /\ last' = [op |-> op, name |-> n, content |-> content,
                outcome |-> e.outcome, steps |-> e.steps]
    /\ UNCHANGED <<minio_client, orchestrator, others>>

\* ImageService.initialize(): the client is set, or left None when Minio(),
\* bucket_exists or make_bucket raises.
ImageInitialize(ok) ==
    /\ minio_client' = ok
    /\ last' = [op |-> "initialize", name |-> <<>>, content |-> <<>>,
                outcome |-> Returned(NoValue), steps |-> <<>>]
    /\ UNCHANGED <<remote, local, orchestrator, others>>

Save(n, content, lo, ro) ==
    Apply("save", n, content, save_uploaded_image(n, content, lo, ro))
Read(n, lo, ro) == Apply("read", n, <<>>, get_image(n, lo, ro))
Delete(n, lo, ro) == Apply("delete", n, <<>>, delete_image(n, lo, ro))
Stat(n, ro) == Apply("stat", n, <<>>, get_image_info(n, ro))
List(ro) == Apply("list", <<>>, <<>>, list_images(ro))

StoreNext ==
    \/ \E ok \in BOOLEAN : ImageInitialize(ok)
    \/ \E n \in Names, content \in Contents, lo \in LocalOutcomes,
          ro \in RemoteOutcomes : Save(n, content, lo, ro)
    \/ \E n \in Names, lo \in LocalOutcomes, ro \in RemoteOutcomes : Read(n, lo, ro)
    \/ \E n \in Names, lo \in LocalOutcomes, ro \in RemoteOutcomes : Delete(n, lo, ro)
    \/ \E n \in Names, ro \in RemoteOutcomes : Stat(n, ro)
    \/ \E ro \in RemoteOutcomes : List(ro)

\* Calls of save_uploaded_image only (and initialize, which writes nothing).
SaveNext ==
    \/ \E ok \in BOOLEAN : ImageInitialize(ok)
    \/ \E n \in Names, content \in Contents, lo \in LocalOutcomes,
          ro \in RemoteOutcomes : Save(n, content, lo, ro)

\* The store on its own: the orchestrator is idle, with its real backends.
StoreInit ==
    /\ Init
    /\ models = [mt \in ModelType |-> "real"]
    /\ max_concurrent_requests = max_concurrent_requests_default

StoreSpec == StoreInit /\ [][StoreNext]_vars
SaveSpec == StoreInit /\ [][SaveNext]_vars

\* ------------------------------------------------------------- CacheService
\* pickle.dumps and pickle.loads.
Pickle(v) == <<"pickle", v>>
Unpickle(b) == b[2]

\* What Redis holds under a key: the bytes, the second it was set at and
\* its time to live.
Entry(key, bytes, at, ttl) == [key |-> key, bytes |-> bytes, at |-> at, ttl |-> ttl]

\* Redis: a key is visible until its time to live has elapsed.  Redis may
\* drop an expired key at any later moment; no command can tell whether it
\* did, so the entry is kept here.
Live(e, t) == t < e.at + e.ttl

\* Redis GET: the bytes of the visible entry of the key, or nil (<<>>).
RedisGet(key) ==
    IF \E e \in cache : e.key = key /\ Live(e, now)
    THEN (CHOOSE e \in cache : e.key = key /\ Live(e, now)).bytes
    ELSE <<>>

\* Redis EXISTS and DEL: the number of visible keys found, removed.
RedisExists(key) == Cardinality({e \in cache : e.key = key /\ Live(e, now)})

\* The cache without the key.
RedisWithout(key) == {e \in cache : e.key # key}

\* Redis SETEX key seconds value: "invalid expire time" for seconds <= 0.
RedisSetex(key, ttl) == IF ttl <= 0 THEN "ResponseError" ELSE "ok"

\* What a call did: the cache after it, how the backend was found, how the
\* call ended.
CacheEffect(c, backend, outcome) ==
    [cache |-> c, backend |-> backend, outcome |-> outcome]

\* A get without its try: the error of the backend reaches the caller.
cache_get_unguarded(key, ro) ==
    IF ~redis_client
    THEN CacheEffect(cache, "none", Returned(NoValue))
    ELSE IF ro # "ok"
    THEN CacheEffect(cache, ro, Raised(Exception(ro)))
    ELSE LET value == RedisGet(key)
         IN  CacheEffect(cache, "ok",
                         IF value # <<>> THEN Returned(Unpickle(value))
                                         ELSE Returned(NoValue))

\* CacheService.get(key): None without a client, the unpickled value of a
\* hit, None for a miss and for any exception.
cache_get(key, ro) ==
    IF ~redis_client
    THEN CacheEffect(cache, "none", Returned(NoValue))
    ELSE IF ro # "ok"
    THEN CacheEffect(cache, ro, Returned(NoValue))
    ELSE LET value == RedisGet(key)
         IN  CacheEffect(cache, "ok",
                         IF value # <<>> THEN Returned(Unpickle(value))
                                         ELSE Returned(NoValue))

\* A set that stores with the default time to live whatever ttl it is given.
cache_set_default_ttl(key, value, ttl, ro) ==
    IF ~redis_client
    THEN CacheEffect(cache, "none", Returned(Bool(FALSE)))
    ELSE IF ro # "ok"
    THEN CacheEffect(cache, ro, Returned(Bool(FALSE)))
    ELSE CacheEffect(RedisWithout(key)
                         \cup {Entry(key, Pickle(value), now, DefaultTtl)},
                     "ok", Returned(Bool(TRUE)))

\* CacheService.set(key, value, ttl): False without a client and for any
\* exception, else setex of the pickled value and True.
cache_set(key, value, ttl, ro) ==
    IF ~redis_client
    THEN CacheEffect(cache, "none", Returned(Bool(FALSE)))
    ELSE IF ro # "ok"
    THEN CacheEffect(cache, ro, Returned(Bool(FALSE)))
    ELSE IF RedisSetex(key, ttl) # "ok"
    THEN CacheEffect(cache, RedisSetex(key, ttl), Returned(Bool(FALSE)))
    ELSE CacheEffect(RedisWithout(key) \cup {Entry(key, Pickle(value), now, ttl)},
                     "ok", Returned(Bool(TRUE)))

\* CacheService.delete(key): False without a client and for any exception,
\* else "result > 0".
cache_delete(key, ro) ==
    IF ~redis_client
    THEN CacheEffect(cache, "none", Returned(Bool(FALSE)))
    ELSE IF ro # "ok"
    THEN CacheEffect(cache, ro, Returned(Bool(FALSE)))
    ELSE CacheEffect(RedisWithout(key), "ok",
                     Returned(Bool(RedisExists(key) > 0)))

\* CacheService.exists(key): False without a client and for any exception,
\* else "result > 0".
cache_exists(key, ro) ==
    IF ~redis_client
    THEN CacheEffect(cache, "none", Returned(Bool(FALSE)))
    ELSE IF ro # "ok"
    THEN CacheEffect(cache, ro, Returned(Bool(FALSE)))
    ELSE CacheEffect(cache, "ok", Returned(Bool(RedisExists(key) > 0)))

\* A call of CacheService takes effect.
CacheApply(op, key, value, ttl, e) ==
    /\ cache' = e.cache
    /\ lastc' = [op |-> op, key |-> key, value |-> value, ttl |-> ttl,
                 backend |-> e.backend, outcome |-> e.outcome, at |-> now]
    /\ UNCHANGED <<redis_client, now, idle, store, eventlog, http>>

\* CacheService.initialize(): the client is kept if the ping is answered,
\* else redis_client is None.
CacheInitialize(ok) ==
    /\ redis_client' = ok
    /\ lastc' = [NoCacheCall EXCEPT !.op = "initialize",
                                    !.outcome = Returned(NoValue), !.at = now]
    /\ UNCHANGED <<cache, now, idle, store, eventlog, http>>

CacheGet(key, ro) == CacheApply("get", key, NoValue, 0, cache_get(key, ro))
CacheSet(key, value, ttl, ro) ==
    CacheApply("set", key, value, ttl, cache_set(key, value, ttl, ro))
CacheDelete(key, ro) ==
    CacheApply("delete", key, NoValue, 0, cache_delete(key, ro))
CacheExists(key, ro) ==
    CacheApply("exists", key, NoValue, 0, cache_exists(key, ro))

\* A second passes on the Redis server.
Tick ==
    /\ now < MaxClock
    /\ now' = now + 1
    /\ UNCHANGED <<redis_client, lastc, orchestrator, store, eventlog, http>>

CacheNext ==
    \/ \E ok \in BOOLEAN : CacheInitialize(ok)
    \/ \E key \in Keys, ro \in RedisOutcomes : CacheGet(key, ro)
    \/ \E key \in Keys, value \in Values, ttl \in Ttls, ro \in RedisOutcomes :
          CacheSet(key, value, ttl, ro)
    \/ \E key \in Keys, ro \in RedisOutcomes : CacheDelete(key, ro)
    \/ \E key \in Keys, ro \in RedisOutcomes : CacheExists(key, ro)
    \/ Tick

CacheSpec == StoreInit /\ [][CacheNext]_vars

\* ------------------------------------------------------- LoggingService calls
\* The most events one behaviour records.
MaxEvents == 2

\* The events callers record, as <<level, module>>: one of every level,
\* from two modules.
Recorded ==
    {<<"DEBUG", "assessments">>, <<"INFO", "models">>, <<"WARNING", "models">>,
     <<"ERROR", "assessments">>, <<"CRITICAL", "models">>}

\* The filters callers of get_logs pass, as <<level, module>> ("" stands
\* for None: "if level:" skips the filter), and the windows.
Filters == {<<"", "">>, <<"ERROR", "">>, <<"", "models">>}
Limits == {1, MaxEvents}
Offsets == {0, 1}

\* A Python list.
List_(items) == [kind |-> "list", items |-> items]

\* get_logs: the dict made of one row.
LogRow(k) ==
    [id |-> k, level |-> durable[k].level, module |-> durable[k].module,
     function |-> durable[k].function, created_at |-> created[k]]

\* The rows (by id) the filters of get_logs keep.
Matching(level, module) ==
    {k \in 1..Len(durable) :
        /\ level # "" => durable[k].level = level
        /\ module # "" => durable[k].module = module}

\* The sequences that hold each member of S once.
Arrangements(S) ==
    {q \in [1..Cardinality(S) -> S] : \A k \in S : \E j \in DOMAIN q : q[j] = k}

\* The rows, oldest first.
Ascending(S) ==
    {q \in Arrangements(S) :
        \A i, j \in DOMAIN q : i < j => created[q[i]] <= created[q[j]]}

\* order_by(SystemLog.created_at.desc()): the rows, newest first; rows of
\* one created_at come in an order the database chooses.
Descending(S) ==
    {q \in Arrangements(S) :
        \A i, j \in DOMAIN q : i < j => created[q[i]] >= created[q[j]]}

\* .offset(offset).limit(limit) of an ordered sequence of rows.
Window(q, offset, limit) ==
    [j \in 1..(IF Len(q) - offset < limit
               THEN (IF Len(q) > offset THEN Len(q) - offset ELSE 0)
               ELSE limit) |-> q[j + offset]]

\* get_logs(level, module, limit, offset): what it can return.  [] when the
\* service is not initialized and when the database raises.
get_logs(level, module, limit, offset, db) ==
    IF ~initialized
    THEN {[db |-> "none", outcome |-> Returned(List_(<<>>))]}
    ELSE IF db # "ok"
    THEN {[db |-> db, outcome |-> Returned(List_(<<>>))]}
    ELSE {[db |-> "ok",
           outcome |-> Returned(List_([j \in DOMAIN Window(q, offset, limit)
                                          |-> LogRow(Window(q, offset, limit)[j])]))] :
            q \in Descending(Matching(level, module))}

\* Where a database block that fails raises: in SessionLocal(), before
\* there is a session, or in a call on the session it opened (add, commit,
\* query).
DbSteps == {"SessionLocal", "session"}

\* The session of a database block after it: none when the block was not
\* entered or SessionLocal() raised; closed when the block ran to its
\* "db.close()", its last statement; else open, for the except branch
\* only logs.
SessionAfter(db, at) ==
    IF db = "none" THEN "none"
    ELSE IF db = "ok" THEN "closed"
    ELSE IF at = "SessionLocal" THEN "none"
    ELSE "open"

\* A record call, log_system_event(level, message, module, function).
Record(level, module, db, at, late) ==
    /\ Len(sink) < MaxEvents
    /\ LET e == write_log_effect(level, module, "caller", 0, db, late)
       IN  /\ sink' = e.sink
           /\ durable' = e.durable
           /\ created' = e.created
           /\ lastlog' = [op |-> "record", level |-> level, module |-> module,
                          limit |-> 0, offset |-> 0, db |-> e.db,
                          session |-> SessionAfter(e.db, at),
                          outcome |-> e.outcome]
    /\ UNCHANGED <<config, initialized, console, cache, callArgs, phase,
                   semaphore, unitVars, results, raised, store, cachestore, http>>

\* A query call, get_logs(level, module, limit, offset).
GetLogs(level, module, limit, offset, db, at) ==
    /\ \E r \in get_logs(level, module, limit, offset, db) :
           lastlog' = [op |-> "query", level |-> level, module |-> module,
                       limit |-> limit, offset |-> offset, db |-> r.db,
                       session |-> SessionAfter(r.db, at),
                       outcome |-> r.outcome]
    /\ UNCHANGED <<orchestrator, store, cachestore, http>>

LogNext ==
    \/ Initialize
    \/ \E event \in Recorded, db \in DbOutcomes, at \in DbSteps,
          late \in {0, 1} :
          Record(event[1], event[2], db, at, late)
    \/ \E filter \in Filters, limit \in Limits, offset \in Offsets,
          db \in DbOutcomes, at \in DbSteps :
          GetLogs(filter[1], filter[2], limit, offset, db, at)

LogSpec == StoreInit /\ [][LogNext]_vars

\* ------------------------------------------------------- create_assessment
\* The content types requests carry, and a check that lets every one in.
ContentTypes == {"image/jpeg", "image/png", "image/tiff", "text/plain"}
AnyContentType(content_type) == TRUE

\* "if not image.content_type in [image/jpeg, image/png, image/tiff]".
ValidContentType(content_type) ==
    content_type \in {"image/jpeg", "image/png", "image/tiff"}

\* A response: the status code and, for an error, what the detail names.
Response(mt, content_type, request_id, status, detail) ==
    [op |-> "create_assessment", model_type |-> mt,
     content_type |-> content_type, request_id |-> request_id,
     status |-> status, detail |-> detail]

\* "image_info.filename": an attribute read.  save_uploaded_image returns a
\* dict, which has keys and no such attribute.
Attribute(value, name) ==
    IF value.kind = "dict"
    THEN Raised(Exception("AttributeError"))
    ELSE Returned(value[name])

\* The except branch of create_assessment: log_error, an ERROR event of
\* module "unknown", then HTTPException(500) naming the exception.
Fail500(mt, content_type, request_id, exception, db, late) ==
    LET e == write_log_effect("ERROR", "unknown", "unknown", 0, db, late)
    IN  /\ sink' = e.sink
        /\ durable' = e.durable
        /\ created' = e.created
        /\ lasthttp' = Response(mt, content_type, request_id, 500, exception.type)

\* POST /assessment with a file named "a.png".  An invalid content type is
\* answered 400 before anything else.  Else a request id is drawn
\* (uuid4: never one drawn before) and the image is saved; the arguments of
\* log_request are then evaluated, and image_info.filename raises, so the
\* assessment, the insert into assessments and the 200 response that follow
\* it in the source are never reached: the request is answered 500.
CreateAssessment(mt, content_type, request_id, content, lo, ro, db, late) ==
    IF ~ValidContentType(content_type)
    THEN /\ lasthttp' = Response(mt, content_type, "", 400, "Invalid file type")
         /\ UNCHANGED <<orchestrator, store, cachestore, eventlog, issued,
                        assessments, lifespan>>
    ELSE /\ request_id \notin issued
         /\ issued' = issued \cup {request_id}
         /\ LET n == UniqueFilename(request_id, "a.png")
                e == save_uploaded_image(n, content, lo, ro)
                filename == IF e.outcome.how = "return"
                            THEN Attribute(e.outcome.value, "filename")
                            ELSE e.outcome
            IN  /\ local' = e.local
                /\ remote' = e.remote
                /\ last' = [op |-> "save", name |-> n, content |-> content,
                            outcome |-> e.outcome, steps |-> e.steps]
                /\ filename.how = "raise"
                /\ Fail500(mt, content_type, request_id, filename.value, db, late)
         /\ UNCHANGED <<config, initialized, console, cache, callArgs, phase,
                        semaphore, unitVars, results, raised, minio_client,
                        cachestore, eventlog, assessments, lifespan>>

RouterNext ==
    \E mt \in ModelType, content_type \in ContentTypes,
       request_id \in RequestIds, content \in Contents, lo \in LocalOutcomes,
       ro \in RemoteOutcomes, db \in DbOutcomes, late \in {0, 1} :
        CreateAssessment(mt, content_type, request_id, content, lo, ro, db, late)

\* The router on its own: neither its ImageService nor its LoggingService
\* is ever initialized.
RouterSpec == StoreInit /\ [][RouterNext]_vars

\* ------------------------------------------------------- delete_assessment
\* os.path.join("uploads", filename): the local file a stored name has.
LocalPath(filename) == <<"uploads", filename>>

\* The Assessment row create_assessment builds from the saved image's
\* info: image_filename and image_path are its filename and its path.
AssessmentRow(id, image_info) ==
    [id |-> id, image_filename |-> image_info.filename,
     image_path |-> image_info.path]

AssessmentIds == {1, 2}

\* delete_image(filename) for any value of filename.  The object and the
\* local file it looks for are those of that very value: when it is not a
\* stored name, remove_object removes nothing and succeeds, and
\* os.path.exists(LocalPath(filename)) is false.
delete_image_of(filename, lo, ro) ==
    IF filename \in Names
    THEN delete_image(filename, lo, ro)
    ELSE IF ~minio_client
    THEN Effect(local, remote, Returned(Bool(TRUE)), <<>>)
    ELSE LET step == <<Step("remote", "remove_object", ro)>>
         IN  IF ro = "ok"
             THEN Effect(local, remote, Returned(Bool(TRUE)), step)
             ELSE IF ro = "S3Error"
             THEN Effect(local, remote, Returned(Bool(FALSE)), step)
             ELSE Effect(local, remote, Raised(Exception(ro)), step)

\* The response of delete_assessment.
Deleted(status, detail) ==
    [op |-> "delete_assessment", model_type |-> "", content_type |-> "",
     request_id |-> "", status |-> status, detail |-> detail]

\* DELETE /assessments/{id}: 404 when no row has the id.  Else
\* delete_image is awaited with the row's image_path and its result is
\* ignored; the row is deleted and the answer is 200.  An exception of
\* delete_image is not handled: the answer is 500 and the row stays.
DeleteAssessment(id, lo, ro) ==
    LET rows == {k \in DOMAIN assessments : assessments[k].id = id}
    IN  IF rows = {}
        THEN /\ lasthttp' = Deleted(404, "Assessment not found")
             /\ UNCHANGED <<orchestrator, store, cachestore, eventlog, issued,
                            assessments, lifespan>>
        ELSE LET k == CHOOSE k \in rows : TRUE
                 e == delete_image_of(assessments[k].image_path, lo, ro)
                 NotK(row) == row.id # id
             IN  /\ local' = e.local
                 /\ remote' = e.remote
                 /\ last' = [op |-> "delete",
                             name |-> assessments[k].image_path,
                             content |-> <<>>, outcome |-> e.outcome,
                             steps |-> e.steps]
                 /\ IF e.outcome.how = "raise"
                    THEN /\ lasthttp' = Deleted(500, e.outcome.value.type)
                         /\ UNCHANGED assessments
                    ELSE /\ lasthttp' =
                                Deleted(200, "Assessment deleted successfully")
                         /\ assessments' = SelectSeq(assessments, NotK)
                 /\ UNCHANGED <<orchestrator, minio_client, cachestore,
                                eventlog, issued, lifespan>>

\* ------------------------------------------------------------------ lifespan
\* The startup half of lifespan(app): the tables are created, then
\* "logging_service = LoggingService(); await logging_service.initialize()"
\* makes a new LoggingService, local to lifespan, and initializes that one.
\* The instance of the router (assessments.py l.24) and the one of the
\* services module, which the orchestrator imports, are other objects:
\* their initialized flag is not touched.
Lifespan ==
    /\ ~lifespan.started
    /\ lifespan' = [started |-> TRUE,
                    logging_service |-> [kind |-> "LoggingService",
                                         initialized |-> TRUE]]
    /\ UNCHANGED <<orchestrator, store, cachestore, eventlog, issued,
                   assessments, lasthttp>>

\* The server takes requests once startup has completed.
Serve(mt, content_type, request_id, content, lo, ro, db, late) ==
    /\ lifespan.started
    /\ CreateAssessment(mt, content_type, request_id, content, lo, ro, db, late)

ServeDelete(id, lo, ro) ==
    /\ lifespan.started
    /\ DeleteAssessment(id, lo, ro)

AppNext ==
    \/ Lifespan
    \/ \E mt \in ModelType, content_type \in ContentTypes,
          request_id \in RequestIds, content \in Contents,
          lo \in LocalOutcomes, ro \in RemoteOutcomes, db \in DbOutcomes,
          late \in {0, 1} :
           Serve(mt, content_type, request_id, content, lo, ro, db, late)
    \/ \E id \in AssessmentIds, lo \in LocalOutcomes, ro \in RemoteOutcomes :
           ServeDelete(id, lo, ro)

\* The running application: startup, then requests to the router.  No
\* create_assessment reaches its insert, so the assessments table stays
\* empty and every delete_assessment is answered 404.
AppSpec == StoreInit /\ [][AppNext]_vars

\* ------------------------------------------------------------------ claims
\* The units whose predict has started and not finished.
InFlight == {i \in Units : pc[i] = "predict"}

\* Whether the call's backend id is registered.
Registered == model_type \in DOMAIN models

\* What the backend did for the artifact at position i: the value or the
\* exception of its predict, or the ValueError of an unregistered id.
BackendOutcome(i) ==
    IF Registered THEN fate[i].value ELSE Exception("ValueError")

\* The events the event log holds for unit i.
EventsOf(i) ==
    LET ByUnit(e) == e.unit = i IN SelectSeq(sink, ByUnit)

\* The lines unit i wrote with the orchestrator's own logger at a level.
LinesOf(i, level) ==
    LET ByUnit(l) == l.unit = i /\ l.level = level IN SelectSeq(console, ByUnit)

Min(a, b) == IF a <= b THEN a ELSE b

\* C1: during batch_assess with max_concurrent = m >= 1, the number of
\* predict invocations started and not finished is at most m in every
\* reachable state.
C1_InFlightWithinLimit ==
    (mode = "batch" /\ max_concurrent >= 1)
        => Cardinality(InFlight) <= max_concurrent

\* The limiter is full and holds a unit back.
C1_Witness ==
    /\ mode = "batch"
    /\ max_concurrent >= 1
    /\ Cardinality(InFlight) = max_concurrent
    /\ \E i \in Units : pc[i] = "waiting"

\* C2: batch_assess returns one entry per submitted artifact, and the entry
\* at position i is the outcome of the artifact submitted at position i,
\* whatever the order of completion.
C2_OrderPreserved ==
    (mode = "batch" /\ phase = "returned")
        => /\ Len(results) = batch_size
           /\ \A i \in 1..batch_size : results[i] = BackendOutcome(i)

\* A returned batch whose units completed out of submission order, with
\* different outcomes.
C2_Witness ==
    /\ mode = "batch"
    /\ phase = "returned"
    /\ batch_size >= 2
    /\ finished[1] > finished[2]
    /\ results[finished[1]] # results[finished[2]]

\* C3: a unit whose predict fails gives an error entry at its own position
\* and nothing else: batch_assess does not raise for it, every other unit is
\* invoked and completes, and each result is at its own position.
C3_FailureIsolated ==
    /\ (mode = "batch" /\ phase = "raised") => max_concurrent < 0
    /\ (mode = "batch" /\ phase = "returned" /\ Registered)
          => \A i \in 1..batch_size :
                /\ pc[i] = "done"
                /\ invoked[i] = 1
                /\ (results[i].kind = "exception") <=> (fate[i].does = "raise")
                /\ (fate[i].does = "return") => (results[i] = fate[i].value)

\* A batch of three under a limit of two in which only the second unit
\* failed.
C3_Witness ==
    /\ mode = "batch"
    /\ phase = "returned"
    /\ batch_size = 3
    /\ max_concurrent = 2
    /\ results[1].kind = "result"
    /\ results[2].kind = "exception"
    /\ results[3].kind = "result"
    /\ fate[2].does = "raise"

\* C4: every Result that assess_image or batch_assess hands to its caller
\* has a confidence between 0.0 and 1.0.
C4_ConfidenceInRange ==
    \A i \in 1..Len(results) :
        (results[i].kind = "result")
            => /\ ConfidenceMin <= results[i].confidence
               /\ results[i].confidence <= ConfidenceMax

\* A Result of a fallback backend, at the top of its range, was returned.
C4_Witness ==
    /\ phase = "returned"
    /\ \E i \in 1..Len(results) :
          /\ results[i].kind = "result"
          /\ results[i].confidence = DummyConfidenceHigh
          /\ results[i].features_dict = DummyFeatures(model_type)

C6_UnknownBackendFailsFirst ==
    (mode = "single" /\ ~Registered)
        => /\ phase = "raised"
           /\ raised = Exception("ValueError")
           /\ \A i \in Units : invoked[i] = 0 /\ fate[i] = NoFate
           /\ sink = <<>>
           /\ durable = <<>>
           /\ cache = {}

\* A single call with an unregistered id has been made.
C6_Witness ==
    /\ mode = "single"
    /\ model_type = "nonexistent"
    /\ phase = "raised"
    /\ pc[1] = "done"

\* C7 as stated: every invocation is under a bounded timeout, so a call
\* with a predict that never completes still ends: the unit is abandoned and
\* assess_image or batch_assess returns or raises.
C7_Original ==
    (\E i \in Units : pc[i] = "predict" /\ fate[i] = WillHang)
        ~> (phase \in {"returned", "raised"})

\* C8 as stated: the limiter's capacity is the smaller of the caller's
\* max_concurrent and the configured ceiling, so a caller that asks for more
\* than the ceiling gets at most the ceiling in flight.
C8_Original ==
    (mode = "batch" /\ max_concurrent >= 1)
        => Cardinality(InFlight) <= Min(max_concurrent, max_concurrent_requests)

\* C9: predict is invoked at most once per request and the request has
\* exactly one outcome; a failed invocation is not retried.
C9_InvokedOnce ==
    \A i \in Units :
        /\ invoked[i] <= 1
        /\ Len(SelectSeq(finished, LAMBDA u : u = i))
              = (IF pc[i] = "done" THEN 1 ELSE 0)
        /\ (pc[i] = "done")
              => /\ invoked[i] = (IF Registered THEN 1 ELSE 0)
                 /\ task[i].how \in {"return", "raise"}
                 /\ task[i].value = BackendOutcome(i)
        /\ (pc[i] # "done") => (task[i] = Pending)

\* A unit whose one invocation failed has ended with that failure.
C9_Witness ==
    \E i \in Units :
        /\ pc[i] = "done"
        /\ fate[i].does = "raise"
        /\ invoked[i] = 1
        /\ task[i] = Raised(Exception("RuntimeError"))

\* C10 as stated: each assess call that reached a backend has exactly one
\* event in the event log, INFO when predict succeeded and ERROR when it
\* failed.
C10_Original ==
    \A i \in Units :
        (pc[i] = "done" /\ invoked[i] > 0)
            => /\ Len(EventsOf(i)) = 1
               /\ EventsOf(i)[1].level
                     = (IF fate[i].does = "return" THEN "INFO" ELSE "ERROR")

\* C10, amended: an assess call that reached a backend emits exactly one
\* event through the event log, at INFO, when predict succeeds, and none
\* when predict fails: the failure is written once, at error level, with
\* the orchestrator's own logger only.
C10_OneInfoEventOnSuccess ==
    \A i \in Units :
        (pc[i] = "done" /\ invoked[i] > 0)
            => IF fate[i].does = "return"
               THEN /\ EventsOf(i) = <<LogEvent("INFO", "models", "inference", i)>>
                    /\ LinesOf(i, "error") = <<>>
               ELSE /\ EventsOf(i) = <<>>
                    /\ LinesOf(i, "error")
                          = <<Line("error", "Assessment failed", i)>>

\* One unit ended in success with its event, another in failure with none.
C10_Witness ==
    \E i, j \in Units :
        /\ pc[i] = "done" /\ fate[i].does = "return" /\ Len(EventsOf(i)) = 1
        /\ pc[j] = "done" /\ fate[j].does = "raise" /\ Len(EventsOf(j)) = 0

LastReturned(op) == last.op = op /\ last.outcome.how = "return"

\* The tier calls of the last call that failed.
FailedSteps == {k \in 1..Len(last.steps) : last.steps[k].result # "ok"}

\* C12: round trip. After a save that returned, a read of the same name in
\* which neither tier fails returns exactly the bytes that were saved.
C12_RoundTrip ==
    LastReturned("save")
        => get_image(last.name, "ok", "ok").outcome
               = Returned(Bytes(last.content))

\* C12 witness: a non-empty payload was saved to both tiers.
C12_Witness ==
    /\ LastReturned("save")
    /\ minio_client
    /\ Len(last.content) > 0
    /\ remote[last.name] = Stored(last.content)
    /\ local[last.name] = Stored(last.content)

\* C13: a save whose local write succeeded returns, whatever happened in
\* the remote tier.
C13_Original ==
    (/\ last.op = "save"
     /\ Len(last.steps) > 0
     /\ last.steps[1] = Step("local", "write", "ok"))
        => last.outcome.how = "return"

\* What a record says about the tiers that hold the artifact.
Marking(record) ==
    IF "tiers" \in DOMAIN record THEN record.tiers ELSE "unmarked"

\* The remote write of the last call happened.
RemoteWritten ==
    \E k \in 1..Len(last.steps) :
        last.steps[k] = Step("remote", "put_object", "ok")

RemoteUnreachable ==
    \/ ~minio_client
    \/ \E k \in 1..Len(last.steps) :
           /\ last.steps[k].tier = "remote"
           /\ last.steps[k].result = "MaxRetryError"

\* No local call of the last call failed.
LocalHealthy ==
    \A k \in 1..Len(last.steps) :
        last.steps[k].tier = "local" => last.steps[k].result = "ok"

\* C15: with the remote tier unreachable, a read of an artifact that was
\* saved returns its bytes from the local tier.
C15_Original ==
    (/\ last.op = "read"
     /\ RemoteUnreachable
     /\ LocalHealthy
     /\ local[last.name].present)
        => last.outcome = Returned(Bytes(local[last.name].bytes))

\* C16: a read returns the remote bytes on a remote hit, the local bytes on
\* a remote miss or any remote error when the local tier holds the
\* artifact, and never raises or reports NotFound while a tier holds a
\* readable copy.
C16_Original ==
    (last.op = "read" /\ LocalHealthy)
        => LET hit == /\ Len(last.steps) > 0
                      /\ last.steps[1] = Step("remote", "get_object", "ok")
           IN  /\ hit => last.outcome
                             = Returned(Bytes(remote[last.name].bytes))
               /\ (~hit /\ local[last.name].present)
                      => last.outcome
                             = Returned(Bytes(local[last.name].bytes))
               /\ last.outcome = Returned(NoValue)
                      => (~hit /\ ~local[last.name].present)

\* C17: a delete attempts the local deletion whatever the remote attempt
\* did, and returns true exactly when no tier failed to delete.
C17_Original ==
    last.op = "delete"
        => /\ local[last.name].present
                  => \E k \in 1..Len(last.steps) :
                         /\ last.steps[k].tier = "local"
                         /\ last.steps[k].call = "remove"
           /\ last.outcome.how = "return"
                  => last.outcome.value = Bool(FailedSteps = {})

\* C18: a delete returns a boolean, and so does a second delete of the
\* same name right after it, whatever the tiers do.
C18_Original ==
    last.op = "delete"
        => /\ last.outcome.how = "return"
           /\ last.outcome.value.kind = "bool"
           /\ \A lo \in LocalOutcomes, ro \in RemoteOutcomes :
                  LET again == delete_image(last.name, lo, ro).outcome
                  IN  again.how = "return" /\ again.value.kind = "bool"

\* C19: save writes the local tier before the remote tier, and after saves
\* only every artifact in the remote tier is in the local tier with the
\* same bytes.
C19_Original ==
    \A n \in Names : remote[n].present => local[n] = remote[n]

\* C19, amended: save writes the local tier before the remote tier and
\* attempts the remote write only after the local write succeeded; after
\* saves only, every artifact in the remote tier is in the local tier, and
\* a save that returned with the client set leaves the same bytes in both
\* tiers. The bytes may differ after a later save of the same name whose
\* remote write failed or was not attempted.
C19_LocalBeforeRemote ==
    /\ \A n \in Names : remote[n].present => local[n].present
    /\ last.op = "save"
           => /\ \A k \in 1..Len(last.steps) :
                     last.steps[k].tier = "remote"
                         => k = 2 /\ last.steps[1] = Step("local", "write", "ok")
              /\ (last.outcome.how = "return" /\ minio_client)
                     => local[last.name] = remote[last.name]

\* C19 witness: after saves only, a name is in both tiers with different
\* bytes, the last save having written the local tier and failed on the
\* remote one.
C19_Witness ==
    /\ last.op = "save"
    /\ Len(last.steps) = 2
    /\ last.steps[2].tier = "remote"
    /\ last.steps[2].result # "ok"
    /\ remote[last.name].present
    /\ local[last.name].present
    /\ local[last.name] # remote[last.name]

\* C20: no reconciliation. A step changes a name's content in a tier only
\* if it is a save or a delete of that name: read, stat and list change
\* nothing, and an artifact held by one tier stays in exactly that tier.
C20_NoReconciliation ==
    [][\A n \in Names :
           \/ last'.op \in {"save", "delete"} /\ last'.name = n
           \/ local'[n] = local[n] /\ remote'[n] = remote[n]]_vars

\* C20 witness: after a read that hit the remote tier, the artifact is
\* still in the remote tier only.
C20_Witness ==
    /\ LastReturned("read")
    /\ last.outcome.value.kind = "bytes"
    /\ remote[last.name].present
    /\ ~local[last.name].present

\* ---- CacheService ----

\* What a cache call returns when it finds nothing or does nothing: None
\* from get, False from set, delete and exists.
CacheMiss(op) == IF op = "get" THEN Returned(NoValue) ELSE Returned(Bool(FALSE))

\* C21: when the cache backend is unreachable (no client, or the call to
\* the backend fails), get, set, delete and exists return without raising:
\* get a miss, the others false, and the cache is left as it was.
C21_DegradesToMiss ==
    [][(/\ lastc'.op \in {"get", "set", "delete", "exists"}
        /\ lastc'.backend \in {"none", "ConnectionError"})
           => /\ lastc'.outcome = CacheMiss(lastc'.op)
              /\ cache' = cache]_vars

\* C21 witness: with a client, a set whose backend call failed returned
\* False and stored nothing under its key.
C21_Witness ==
    /\ redis_client
    /\ lastc.op = "set"
    /\ lastc.backend = "ConnectionError"
    /\ lastc.outcome = Returned(Bool(FALSE))
    /\ lastc.ttl > 0
    /\ \A e \in cache : e.key # lastc.key

\* C22: a set that stored leaves the entry with its value and ttl; a get or
\* exists served by the backend while an entry of the key is held (no
\* delete and no other set since) reports a miss once the ttl has elapsed,
\* the entry not having been removed, and before that get returns the
\* stored value.
C22_ExpiredInvisible ==
    /\ (lastc.op = "set" /\ lastc.outcome = Returned(Bool(TRUE)))
           => Entry(lastc.key, Pickle(lastc.value), lastc.at, lastc.ttl) \in cache
    /\ \A e \in cache :
           (/\ lastc.op \in {"get", "exists"}
            /\ lastc.backend = "ok"
            /\ lastc.key = e.key)
               => IF lastc.at >= e.at + e.ttl
                  THEN lastc.outcome = CacheMiss(lastc.op)
                  ELSE lastc.outcome
                           = (IF lastc.op = "get"
                              THEN Returned(Unpickle(e.bytes))
                              ELSE Returned(Bool(TRUE)))

\* C22 witness: a get found nothing under a key whose entry has expired
\* and is still held.
C22_Witness ==
    /\ lastc.op = "get"
    /\ lastc.backend = "ok"
    /\ lastc.outcome = Returned(NoValue)
    /\ \E e \in cache : e.key = lastc.key /\ lastc.at >= e.at + e.ttl

\* ---- LoggingService ----

\* C23: every record call emits its event to the live sink whatever the
\* level, and writes it to the durable store only if the level is WARNING,
\* ERROR or CRITICAL: no DEBUG or INFO event is ever in the durable store.
C23_SeverityGated ==
    [][(/\ lastlog'.op = "record"
        /\ <<sink, durable, lastlog>>' # <<sink, durable, lastlog>>)
           => /\ sink' = Append(sink, LogEvent(lastlog'.level, lastlog'.module,
                                                "caller", 0))
              /\ durable' # durable
                     => lastlog'.level \in {"WARNING", "ERROR", "CRITICAL"}
              /\ \A k \in 1..Len(durable') :
                     durable'[k].level \notin {"DEBUG", "INFO"}]_vars

\* C23 witness: an initialized service, whose store works, emitted an INFO
\* event after a severe one and stored the severe one only.
C23_Witness ==
    /\ initialized
    /\ lastlog.op = "record"
    /\ lastlog.level = "INFO"
    /\ Len(sink) = 2
    /\ sink[2].level = "INFO"
    /\ Len(durable) = 1
    /\ durable[1] = sink[1]

\* C24: a failure of the durable store during a record call is absorbed:
\* the call returns normally, having emitted its event.
C24_StoreFailureAbsorbed ==
    lastlog.op = "record"
        => /\ lastlog.outcome = Returned(NoValue)
           /\ Len(sink) > 0
           /\ sink[Len(sink)].level = lastlog.level

\* C24 witness: the store failed under an ERROR event of an initialized
\* service; nothing was stored and the call returned.
C24_Witness ==
    /\ initialized
    /\ lastlog.op = "record"
    /\ lastlog.level = "ERROR"
    /\ lastlog.db = "OperationalError"
    /\ lastlog.outcome.how = "return"
    /\ durable = <<>>

\* The rows a query matches that are newer than created_at t, and those at
\* least as new.
Newer(level, module, t) == {k \in Matching(level, module) : created[k] > t}
NotOlder(level, module, t) == {k \in Matching(level, module) : created[k] >= t}

\* C25: a query on an uninitialized store, or one whose read fails, returns
\* an empty list and never raises; on an initialized store it returns the
\* stored events that match the level and module filters, most recent
\* first, skipping offset of them and returning at most limit.
C25_QueryWindow ==
    lastlog.op = "query"
        => /\ lastlog.outcome.how = "return"
           /\ lastlog.outcome.value.kind = "list"
           /\ LET items == lastlog.outcome.value.items
                  M == Matching(lastlog.level, lastlog.module)
                  rest == IF Cardinality(M) > lastlog.offset
                          THEN Cardinality(M) - lastlog.offset ELSE 0
              IN  IF lastlog.db # "ok"
                  THEN items = <<>>
                  ELSE /\ Len(items) = Min(lastlog.limit, rest)
                       /\ \A j \in DOMAIN items :
                              /\ items[j].id \in M
                              /\ items[j] = LogRow(items[j].id)
                              /\ Cardinality(Newer(lastlog.level, lastlog.module,
                                                   items[j].created_at))
                                     <= lastlog.offset + j - 1
                              /\ Cardinality(NotOlder(lastlog.level, lastlog.module,
                                                      items[j].created_at))
                                     >= lastlog.offset + j
                       /\ \A i, j \in DOMAIN items :
                              i < j => /\ items[i].id # items[j].id
                                       /\ items[i].created_at >= items[j].created_at

\* C25 witness: a query returned two stored events of different times, the
\* newer one first.
C25_Witness ==
    /\ lastlog.op = "query"
    /\ lastlog.db = "ok"
    /\ Len(lastlog.outcome.value.items) = 2
    /\ lastlog.outcome.value.items[1].created_at
           > lastlog.outcome.value.items[2].created_at

\* ---- the registry ----

\* C26: fallback substitution is per backend id: an id is bound to the
\* fallback backend exactly when the construction of its own backend
\* failed.
C26_Original ==
    \A mt \in ModelType :
        models[mt] = (IF loadable[mt] THEN "real" ELSE "dummy")

\* C27: every result of a fallback backend has a label in {lesion, normal},
\* a confidence in [0.7, 0.95] and a feature map that carries the dummy
\* feature key and the id of the backend it stands for.
C27_FallbackResultTagged ==
    \A i \in Units :
        (/\ task[i].how = "return"
         /\ Registered
         /\ models[model_type] = "dummy")
            => LET result == task[i].value
               IN  /\ result.prediction \in PredictionType
                   /\ result.confidence >= DummyConfidenceLow
                   /\ result.confidence <= DummyConfidenceHigh
                   /\ DOMAIN result.features_dict = {"dummy_feature", "model_type"}
                   /\ result.features_dict.dummy_feature = 50
                   /\ result.features_dict.model_type = model_type

\* C27 witness: a fallback backend standing for "quantum" returned a
\* lesion.
C27_Witness ==
    \E i \in Units :
        /\ task[i].how = "return"
        /\ model_type = "quantum"
        /\ models["quantum"] = "dummy"
        /\ task[i].value.prediction = "lesion"
        /\ task[i].value.features_dict.model_type = "quantum"

\* ---- batch_assess, termination ----

\* C29: batch_assess terminates.  With max_concurrent >= 1, a running batch
\* call returns unless one of its invocations never completes, and when it
\* has returned no unit is in flight or waiting; a unit that fails gives
\* its slot back, so the units waiting behind it are admitted.
C29_BatchTerminates ==
    /\ []((mode = "batch" /\ phase = "returned")
             => /\ InFlight = {}
                /\ \A i \in Units : pc[i] \in {"absent", "done"}
                /\ semaphore = max_concurrent)
    /\ (mode = "batch" /\ phase = "running" /\ max_concurrent >= 1)
           ~> (phase = "returned" \/ \E i \in Units : fate[i] = WillHang)

\* C29 witness: a batch longer than max_concurrent returned after one of
\* its units failed in its backend.
C29_Witness ==
    /\ mode = "batch"
    /\ phase = "returned"
    /\ max_concurrent >= 1
    /\ batch_size > max_concurrent
    /\ \E i \in Units : task[i].how = "raise" /\ invoked[i] = 1
    /\ \E i \in Units : task[i].how = "return"

\* C30: batch_assess with max_concurrent = 0 and a non-empty batch admits
\* no unit: no invocation starts, every unit waits on the semaphore, whose
\* value stays 0, and the call does not return.
C30_ZeroAdmitsNone ==
    (mode = "batch" /\ max_concurrent = 0 /\ batch_size >= 1)
        => /\ phase = "running"
           /\ semaphore = 0
           /\ \A i \in 1..batch_size : pc[i] = "waiting" /\ invoked[i] = 0
           /\ finished = <<>>

\* C30 witness: batch_assess was called with max_concurrent = 0 on two
\* artifacts or more.
C30_Witness ==
    /\ mode = "batch"
    /\ max_concurrent = 0
    /\ batch_size >= 2
    /\ pc[batch_size] = "waiting"

\* ---- create_assessment ----

\* C28: a create-assessment request whose content type is not image/jpeg,
\* image/png or image/tiff is answered 400 before any side effect: no
\* artifact is written to either tier, no backend is invoked, no assessment
\* row is persisted and no event is recorded.
C28_RejectedBeforeSideEffects ==
    [][(/\ lasthttp'.op = "create_assessment"
        /\ lasthttp'.content_type \notin {"image/jpeg", "image/png", "image/tiff"})
           => /\ lasthttp'.status = 400
              /\ UNCHANGED <<local, remote, last, invoked, fate, pc, assessments,
                             sink, durable, created, console, issued>>]_vars

\* C28 witness: a text/plain request was answered 400 after an earlier
\* request had left its artifact in the local tier.
C28_Witness ==
    /\ lasthttp.op = "create_assessment"
    /\ lasthttp.content_type = "text/plain"
    /\ lasthttp.status = 400
    /\ \E n \in Names : local[n].present
    /\ Len(sink) = 1

\* C31: batch_assess with a backend id that is not in the registry (and a
\* limit of at least 1) does not raise; no backend is invoked for any
\* artifact, and the list it returns has one entry per submitted artifact,
\* each the ValueError that assess_image raised for the unknown id.
C31_UnknownIdCaptured ==
    (mode = "batch" /\ ~Registered /\ max_concurrent >= 1) =>
        /\ phase # "raised"
        /\ \A i \in Units : invoked[i] = 0
        /\ phase = "returned" =>
              /\ Len(results) = batch_size
              /\ \A i \in 1..batch_size : results[i] = Exception("ValueError")

C31_Witness ==
    /\ mode = "batch"
    /\ ~Registered
    /\ max_concurrent >= 1
    /\ phase = "returned"
    /\ batch_size >= 2
    /\ \A i \in 1..batch_size : results[i] = Exception("ValueError")

\* C32: in the running application, after startup, the LoggingService the
\* request handlers record with is an initialized one, and the ERROR event
\* that log_error records for a failed request is in the durable store.
C32_Original ==
    (lifespan.started /\ lasthttp.status = 500) =>
        /\ initialized
        /\ \E k \in DOMAIN durable : durable[k].level = "ERROR"

\* C33: after a delete that returned true no tier holds the artifact, and a
\* read of the same name with no save in between reports NotFound (returns
\* None), whatever the tiers do.
C33_Original ==
    (last.op = "delete" /\ last.outcome = Returned(Bool(TRUE)))
        => /\ ~local[last.name].present
           /\ ~remote[last.name].present
           /\ \A lo \in LocalOutcomes, ro \in RemoteOutcomes :
                  get_image(last.name, lo, ro).outcome = Returned(NoValue)

C35_Original ==
    (/\ last.op = "save"
     /\ last.outcome.how = "raise"
     /\ Len(last.steps) > 0
     /\ last.steps[1] = Step("local", "write", "ok"))
        => /\ local[last.name] = Stored(last.content)
           /\ \A ro \in RemoteOutcomes :
                  LET read == get_image(last.name, "ok", ro).outcome
                  IN  read.how = "return" /\ read.value # NoValue

C37_RegistryTotalAndFixed ==
    /\ DOMAIN models = ModelType
    /\ \A mt \in ModelType : models[mt] \in {"real", "dummy"}
    /\ [][models' = models]_vars

\* C37 witness: the construction of one backend had failed, and a batch
\* call and its units have run to the end with every id still bound.
C37_Witness ==
    /\ \E mt \in ModelType : ~loadable[mt]
    /\ \E mt \in ModelType : loadable[mt]
    /\ mode = "batch"
    /\ phase = "returned"
    /\ batch_size >= 2
    /\ DOMAIN models = ModelType

\* C38: the session a record or a query opened is closed when the call has
\* returned, whether its database block worked or raised.
C38_Original ==
    lastlog.op \in {"record", "query"} => lastlog.session # "open"

====
